---- MODULE Spec2Model ----
(***************************************************************************)
(* A model of the REST API of Ecommerce_api/product/views.py: the five     *)
(* ModelViewSets (User, Product, Order, Review, Category), their           *)
(* permission classes, their get_queryset methods and the ProductFilter.   *)
(* One request is one atomic step: authentication has already resolved     *)
(* request.user, then permissions are checked, the object is looked up in  *)
(* the view's queryset, object permissions are checked, and the handler    *)
(* reads or writes the table.  resp is the response on its way back to the *)
(* client, which sends one request at a time.                              *)
(***************************************************************************)
EXTENDS Integers, FiniteSets, Sequences, TLC

VARIABLES users, categories, products, orders, reviews, seq, resp

vars == <<users, categories, products, orders, reviews, seq, resp>>

(***************************************************************************)
(* Bounds of the model.                                                    *)
(***************************************************************************)
MaxUsers == 3
MaxCategories == 1
MaxProducts == 2
MaxOrders == 2
MaxReviews == 2
MaxPrice == 2
MaxStock == 2
MaxQuantity == 2
MaxRating == 2

\* The values a payload's fields are drawn from.
Usernames == {"a", "b"}
Quantities == 1..MaxQuantity
Ratings == 1..MaxRating

(***************************************************************************)
(* Actors.  request.user is either the AnonymousUser or a row of users.    *)
(***************************************************************************)
AnonymousUser == [id |-> 0, is_authenticated |-> FALSE, is_staff |-> FALSE]

AsActor(u) == [id |-> u.id, is_authenticated |-> TRUE, is_staff |-> u.is_staff]

Actors == {AnonymousUser} \cup {AsActor(u) : u \in users}

(***************************************************************************)
(* The router's table of a ModelViewSet: method and action of each route.  *)
(***************************************************************************)
DetailActions == {"retrieve", "update", "partial_update", "destroy"}

WriteActions == {"create", "update", "partial_update"}

\* The requests of one resource: every actor, every route, every primary key
\* of pks on the detail routes, every payload on the writing routes and every
\* query string on the list route.  data is {} or {payload}.
RequestsFor(actors, pks, payloads, queries) ==
    {[user |-> a, method |-> "GET", action |-> "list", pk |-> 0,
      data |-> {}, query |-> q] : a \in actors, q \in queries}
    \cup
    {[user |-> a, method |-> "POST", action |-> "create", pk |-> 0,
      data |-> {d}, query |-> {}] : a \in actors, d \in payloads}
    \cup
    {[user |-> a, method |-> m, action |-> IF m = "GET" THEN "retrieve" ELSE "destroy",
      pk |-> k, data |-> {}, query |-> {}] :
        a \in actors, m \in {"GET", "DELETE"}, k \in pks}
    \cup
    {[user |-> a, method |-> m, action |-> IF m = "PUT" THEN "update" ELSE "partial_update",
      pk |-> k, data |-> {d}, query |-> {}] :
        a \in actors, m \in {"PUT", "PATCH"}, k \in pks, d \in payloads}

Payload(request) == CHOOSE d \in request.data : TRUE

(***************************************************************************)
(* Permission classes.                                                     *)
(***************************************************************************)
SAFE_METHODS == {"GET", "HEAD", "OPTIONS"}

IsAuthenticated_has_permission(request) == request.user.is_authenticated

IsAuthenticatedOrReadOnly_has_permission(request) ==
    request.method \in SAFE_METHODS \/ request.user.is_authenticated

IsAdminOrReadOnly_has_permission(request) ==
    IF request.method \in {"GET", "HEAD", "OPTIONS", "POST"}
    THEN request.user.is_authenticated
    ELSE request.user.is_staff

has_object_permission_without_owner_get(request, obj) ==
    IF request.method \in {"PUT", "DELETE"}
    THEN IF request.user.is_staff THEN TRUE ELSE obj.user = request.user.id
    ELSE FALSE

IsAdminOrReadOnly_has_object_permission(request, obj) ==
    IF request.method = "GET" /\ obj.user = request.user.id
    THEN TRUE
    ELSE IF request.method \in {"PUT", "DELETE"}
         THEN IF request.user.is_staff THEN TRUE ELSE obj.user = request.user.id
         ELSE FALSE

has_permission(p, request) ==
    CASE p = "IsAuthenticated" -> IsAuthenticated_has_permission(request)
      [] p = "IsAuthenticatedOrReadOnly" -> IsAuthenticatedOrReadOnly_has_permission(request)
      [] p = "IsAdminOrReadOnly" -> IsAdminOrReadOnly_has_permission(request)

\* BasePermission.has_object_permission returns True unless overridden.
has_object_permission(p, request, obj) ==
    CASE p = "IsAdminOrReadOnly" -> IsAdminOrReadOnly_has_object_permission(request, obj)
      [] OTHER -> TRUE

\* Every permission of the view must grant the request.
check_permissions(request, perms) == \A p \in perms : has_permission(p, request)

check_object_permissions(request, perms, obj) ==
    \A p \in perms : has_object_permission(p, request, obj)

\* The status of a refused request: an unauthenticated request to a view whose
\* authenticator sends a WWW-Authenticate header (JWTAuthentication does) is
\* answered 401, every other refusal 403.
permission_denied(request, authenticate_header) ==
    IF ~request.user.is_authenticated /\ authenticate_header THEN 401 ELSE 403

(***************************************************************************)
(* The generic ModelViewSet: check_permissions, then the action.  table is *)
(* the model's rows, qs the view's queryset, listing the answer of the     *)
(* list action, valid whether the serializer accepts the payload, created  *)
(* the row a create saves and updated the row an update of the object      *)
(* saves.                                                                  *)
(***************************************************************************)
get_object(request, qs) == {o \in qs : o.id = request.pk}

ModelViewSet(request, perms, authenticate_header, table, qs, listing, valid, created, updated) ==
    LET found == get_object(request, qs)
        obj == CHOOSE o \in found : TRUE
        Same(st, res) == [status |-> st, results |-> res, table |-> table]
    IN  IF ~check_permissions(request, perms)
        THEN Same(permission_denied(request, authenticate_header), {})
        ELSE CASE request.action = "list" -> Same(listing.status, listing.results)
               [] request.action = "create" ->
                    IF ~valid THEN Same(400, {})
                    ELSE [status |-> 201, results |-> {created},
                          table |-> table \cup {created}]
               [] OTHER ->
                    IF found = {} THEN Same(404, {})
                    ELSE IF ~check_object_permissions(request, perms, obj)
                    THEN Same(permission_denied(request, authenticate_header), {})
                    ELSE CASE request.action = "retrieve" -> Same(200, {obj})
                           [] request.action = "destroy" ->
                                [status |-> 204, results |-> {},
                                 table |-> table \ {obj}]
                           [] OTHER ->
                                IF ~valid THEN Same(400, {})
                                ELSE [status |-> 200, results |-> {updated},
                                      table |-> (table \ {obj}) \cup {updated}]

\* serializer.save(**kwargs): the keyword arguments override the validated data.
Serializer_save(validated_data, kwargs) ==
    [f \in DOMAIN validated_data \cup DOMAIN kwargs |->
        IF f \in DOMAIN kwargs THEN kwargs[f] ELSE validated_data[f]]

NoKwargs == [f \in {} |-> 0]

Listing(results) == [status |-> 200, results |-> results]

\* What a step records of its request and of the answer.  target is the row
\* the primary key named before the request was handled.
Response(resource, request, r, table) ==
    [resource |-> resource, user |-> request.user, method |-> request.method,
     action |-> request.action, pk |-> request.pk, data |-> request.data,
     query |-> request.query, status |-> r.status, results |-> r.results,
     target |-> {o \in table : o.id = request.pk},
     changed |-> r.table # table]

NoResponse ==
    [resource |-> "none", user |-> AnonymousUser, method |-> "GET",
     action |-> "none", pk |-> 0, data |-> {}, query |-> {}, status |-> 0,
     results |-> {}, target |-> {}, changed |-> FALSE]

(***************************************************************************)
(* UserViewSet.                                                            *)
(***************************************************************************)
UserViewSet_get_permissions(action) ==
    IF action = "create" THEN {} ELSE {"IsAuthenticated"}

get_queryset_every_user(request) == users

UserViewSet_get_queryset(request) ==
    IF request.user.is_staff
    THEN users
    ELSE {u \in users : u.id = request.user.id}

\* UserSerializer: a registration makes an ordinary account, an update
\* rewrites the account's own fields and keeps its id and role.
UserSerializer_create(id, d) == [id |-> id, is_staff |-> FALSE, username |-> d.username]

UserSerializer_update(obj, d) == [obj EXCEPT !.username = d.username]

UserPayloads == [username : Usernames, valid : BOOLEAN]

UserViewSet(request) ==
    LET d == Payload(request)
        updated == UserSerializer_update(CHOOSE o \in get_object(request, UserViewSet_get_queryset(request)) : TRUE, d)
    IN  ModelViewSet(request, UserViewSet_get_permissions(request.action), TRUE,
                     users, UserViewSet_get_queryset(request),
                     Listing(UserViewSet_get_queryset(request)),
                     request.action \in WriteActions /\ d.valid,
                     IF request.action = "create"
                     THEN UserSerializer_create(seq.User + 1, d) ELSE {},
                     updated)

UserRequest(request) ==
    LET r == UserViewSet(request)
    IN  /\ resp = NoResponse
        /\ r.status = 201 => seq.User < MaxUsers
        /\ users' = r.table
        /\ seq' = IF r.status = 201 THEN [seq EXCEPT !.User = @ + 1] ELSE seq
        /\ resp' = Response("User", request, r, users)
        /\ UNCHANGED <<categories, products, orders, reviews>>

(***************************************************************************)
(* CategoryViewSet.                                                        *)
(***************************************************************************)
CategoryViewSet_permission_classes == {"IsAuthenticatedOrReadOnly"}

CategoryViewSet_get_queryset(request) == categories

CategorySerializer_create(id, d) == [id |-> id, name |-> d.name]

CategorySerializer_update(obj, d) == [obj EXCEPT !.name = d.name]

\* Product.category is a nullable reference: products of a removed category
\* keep existing, without a category.
Category_on_delete(c) ==
    {IF p.category = {c.id} THEN [p EXCEPT !.category = {}] ELSE p : p \in products}

CategoryPayloads == [name : Usernames, valid : BOOLEAN]

CategoryViewSet(request) ==
    LET d == Payload(request)
        updated == CategorySerializer_update(CHOOSE o \in get_object(request, CategoryViewSet_get_queryset(request)) : TRUE, d)
    IN  ModelViewSet(request, CategoryViewSet_permission_classes, TRUE,
                     categories, CategoryViewSet_get_queryset(request),
                     Listing(CategoryViewSet_get_queryset(request)),
                     request.action \in WriteActions /\ d.valid,
                     IF request.action = "create"
                     THEN CategorySerializer_create(seq.Category + 1, d) ELSE {},
                     updated)

CategoryRequest(request) ==
    LET r == CategoryViewSet(request)
        gone == categories \ {c \in categories : \E n \in r.table : n.id = c.id}
    IN  /\ resp = NoResponse
        /\ r.status = 201 => seq.Category < MaxCategories
        /\ categories' = r.table
        /\ products' = IF gone = {} THEN products
                       ELSE Category_on_delete(CHOOSE c \in gone : TRUE)
        /\ seq' = IF r.status = 201 THEN [seq EXCEPT !.Category = @ + 1] ELSE seq
        /\ resp' = Response("Category", request, r, categories)
        /\ UNCHANGED <<users, orders, reviews>>

(***************************************************************************)
(* ProductFilter, ProductPagination and ProductViewSet.  A query parameter *)
(* is {} when absent and {value} when given.                               *)
(***************************************************************************)
page_size == 10

\* The first page of a result: all of it while it fits the page.
ProductPagination(results) ==
    IF Cardinality(results) <= page_size THEN results
    ELSE CHOOSE page \in SUBSET results : Cardinality(page) = page_size

\* The integer a boolean is compared as by a lookup on an integer column.
IntegerField_get_prep_value(b) == IF b THEN 1 ELSE 0

ProductFilter_min_price(qs, value) ==
    IF value = {} THEN qs ELSE {p \in qs : \A v \in value : p.price >= v}

ProductFilter_max_price(qs, value) ==
    IF value = {} THEN qs ELSE {p \in qs : \A v \in value : p.price <= v}

ProductFilter_category(qs, value) ==
    IF value = {} THEN qs ELSE {p \in qs : p.category = value}

\* BooleanFilter(field_name="stock_quantity", lookup_expr="gt"): the lookup
\* stock_quantity__gt is given the boolean itself.
ProductFilter_in_stock(qs, value) ==
    IF value = {} THEN qs
    ELSE {p \in qs : \A v \in value : p.stock_quantity > IntegerField_get_prep_value(v)}

\* The category parameter must name a row of Category.objects.all().
ProductFilter_is_valid(query) ==
    \A c \in query.category : \E k \in categories : k.id = c

ProductFilter(qs, query) ==
    ProductFilter_in_stock(
        ProductFilter_max_price(
            ProductFilter_min_price(
                ProductFilter_category(qs, query.category),
                query.min_price),
            query.max_price),
        query.in_stock)

ProductViewSet_permission_classes == {"IsAuthenticatedOrReadOnly"}

ProductViewSet_get_queryset(request) == products

ProductViewSet_list(request) ==
    IF ~ProductFilter_is_valid(request.query)
    THEN [status |-> 400, results |-> {}]
    ELSE Listing(ProductPagination(
             ProductFilter(ProductViewSet_get_queryset(request), request.query)))

\* ProductSerializer: the fields of the payload; a category must exist.
ProductSerializer_is_valid(d) ==
    d.valid /\ \A c \in d.category : \E k \in categories : k.id = c

ProductSerializer_create(id, d) ==
    [id |-> id, price |-> d.price, stock_quantity |-> d.stock_quantity,
     category |-> d.category]

ProductSerializer_update(obj, d) ==
    [obj EXCEPT !.price = d.price, !.stock_quantity = d.stock_quantity,
                !.category = d.category]

Optional(S) == {{}} \cup {{x} : x \in S}

ProductPayloads ==
    [price : 1..MaxPrice, stock_quantity : 0..MaxStock,
     category : Optional(1..MaxCategories), valid : BOOLEAN]

ProductQueries ==
    [min_price : Optional(1..MaxPrice), max_price : Optional(1..MaxPrice),
     category : Optional(1..MaxCategories), in_stock : Optional(BOOLEAN)]

NoQuery == [min_price |-> {}, max_price |-> {}, category |-> {}, in_stock |-> {}]

ProductViewSet(request) ==
    LET d == Payload(request)
        updated == ProductSerializer_update(CHOOSE o \in get_object(request, ProductViewSet_get_queryset(request)) : TRUE, d)
    IN  ModelViewSet(request, ProductViewSet_permission_classes, TRUE,
                     products, ProductViewSet_get_queryset(request),
                     ProductViewSet_list(request),
                     request.action \in WriteActions /\ ProductSerializer_is_valid(d),
                     IF request.action = "create"
                     THEN ProductSerializer_create(seq.Product + 1, d) ELSE {},
                     updated)

ProductRequest(request) ==
    LET r == ProductViewSet(request)
    IN  /\ resp = NoResponse
        /\ r.status = 201 => seq.Product < MaxProducts
        /\ products' = r.table
        /\ seq' = IF r.status = 201 THEN [seq EXCEPT !.Product = @ + 1] ELSE seq
        /\ resp' = Response("Product", request, r, products)
        /\ UNCHANGED <<users, categories, orders, reviews>>

(***************************************************************************)
(* OrderViewSet.                                                           *)
(***************************************************************************)
OrderViewSet_permission_classes == {"IsAuthenticated", "IsAdminOrReadOnly"}

get_queryset_every_order(request) == orders

OrderViewSet_get_queryset(request) ==
    IF request.user.is_staff
    THEN orders
    ELSE {o \in orders : o.user = request.user.id}

validated_data_user_from_payload(request, d) ==
    [user |-> d.user, quantity |-> d.quantity]

\* OrderSerializer: the owner of a new order is the authenticated actor of
\* the request, whatever user the payload names.
OrderSerializer_validated_data(request, d) ==
    [user |-> request.user.id, quantity |-> d.quantity]

\* An order's owner is set at creation; an update rewrites the other fields.
OrderSerializer_update(obj, d) == [obj EXCEPT !.quantity = d.quantity]

\* ModelViewSet.perform_create, which OrderViewSet does not override.
OrderViewSet_perform_create(request, validated_data) ==
    Serializer_save(validated_data, NoKwargs)

OrderViewSet_create(request, id) ==
    LET saved == OrderViewSet_perform_create(
                     request, OrderSerializer_validated_data(request, Payload(request)))
    IN  [id |-> id, user |-> saved.user, quantity |-> saved.quantity]

OrderPayloads == [user : 1..MaxUsers, quantity : Quantities, valid : BOOLEAN]

OrderViewSet(request) ==
    LET d == Payload(request)
        updated == OrderSerializer_update(CHOOSE o \in get_object(request, OrderViewSet_get_queryset(request)) : TRUE, d)
    IN  ModelViewSet(request, OrderViewSet_permission_classes, TRUE,
                     orders, OrderViewSet_get_queryset(request),
                     Listing(ProductPagination(OrderViewSet_get_queryset(request))),
                     request.action \in WriteActions /\ d.valid,
                     IF request.action = "create"
                     THEN OrderViewSet_create(request, seq.Order + 1) ELSE {},
                     updated)

OrderRequest(request) ==
    LET r == OrderViewSet(request)
    IN  /\ resp = NoResponse
        /\ r.status = 201 => seq.Order < MaxOrders
        /\ orders' = r.table
        /\ seq' = IF r.status = 201 THEN [seq EXCEPT !.Order = @ + 1] ELSE seq
        /\ resp' = Response("Order", request, r, orders)
        /\ UNCHANGED <<users, categories, products, reviews>>

(***************************************************************************)
(* ReviewViewSet.  It names no authentication class, so whether a refused  *)
(* anonymous request is answered 401 or 403 is the project's setting:      *)
(* authenticate_header is either.                                          *)
(***************************************************************************)
ReviewViewSet_permission_classes == {"IsAuthenticated"}

ReviewViewSet_queryset == reviews

\* ReviewSerializer: an author id supplied in the payload is passed on with
\* the other fields.
ReviewSerializer_validated_data(d) == [user |-> d.user, rating |-> d.rating]

\* A review's author is its creator; an update rewrites the other fields.
ReviewSerializer_update(obj, d) == [obj EXCEPT !.rating = d.rating]

perform_create_without_user(request, validated_data) ==
    Serializer_save(validated_data, NoKwargs)

ReviewViewSet_perform_create(request, validated_data) ==
    Serializer_save(validated_data, [user |-> request.user.id])

ReviewViewSet_create(request, id) ==
    LET saved == ReviewViewSet_perform_create(
                     request, ReviewSerializer_validated_data(Payload(request)))
    IN  [id |-> id, user |-> saved.user, rating |-> saved.rating]

ReviewPayloads == [user : 1..MaxUsers, rating : Ratings, valid : BOOLEAN]

ReviewViewSet(request, authenticate_header) ==
    LET d == Payload(request)
        updated == ReviewSerializer_update(CHOOSE o \in get_object(request, ReviewViewSet_queryset) : TRUE, d)
    IN  ModelViewSet(request, ReviewViewSet_permission_classes, authenticate_header,
                     reviews, ReviewViewSet_queryset,
                     Listing(ReviewViewSet_queryset),
                     request.action \in WriteActions /\ d.valid,
                     IF request.action = "create"
                     THEN ReviewViewSet_create(request, seq.Review + 1) ELSE {},
                     updated)

ReviewRequest(request, authenticate_header) ==
    LET r == ReviewViewSet(request, authenticate_header)
    IN  /\ resp = NoResponse
        /\ r.status = 201 => seq.Review < MaxReviews
        /\ reviews' = r.table
        /\ seq' = IF r.status = 201 THEN [seq EXCEPT !.Review = @ + 1] ELSE seq
        /\ resp' = Response("Review", request, r, reviews)
        /\ UNCHANGED <<users, categories, products, orders>>

\* The response is returned to the client, which may then send its next
\* request.
Deliver ==
    /\ resp # NoResponse
    /\ resp' = NoResponse
    /\ UNCHANGED <<users, categories, products, orders, reviews, seq>>

(***************************************************************************)
(* The requests a client can send to each endpoint.                        *)
(***************************************************************************)
UserRequests(actors) == RequestsFor(actors, 1..MaxUsers, UserPayloads, {{}})

CategoryRequests(actors) == RequestsFor(actors, 1..MaxCategories, CategoryPayloads, {{}})

ProductRequests(actors) == RequestsFor(actors, 1..MaxProducts, ProductPayloads, ProductQueries)

OrderRequests(actors) == RequestsFor(actors, 1..MaxOrders, OrderPayloads, {{}})

ReviewRequests(actors) == RequestsFor(actors, 1..MaxReviews, ReviewPayloads, {{}})

(***************************************************************************)
(* Stores the program starts from.  The accounts are those of the tests'   *)
(* setUp: a superuser and ordinary users.                                  *)
(***************************************************************************)
Account(id) == [id |-> id, is_staff |-> id = 1, username |-> "a"]

TestCategory == [id |-> 1, name |-> "a"]

Store(us, cs, ps, os, rs) ==
    /\ users = {Account(i) : i \in us}
    /\ categories = cs
    /\ products = ps
    /\ orders = os
    /\ reviews = rs
    /\ seq = [User |-> Cardinality(us), Category |-> Cardinality(cs),
              Product |-> Cardinality(ps), Order |-> Cardinality(os),
              Review |-> Cardinality(rs)]
    /\ resp = NoResponse

\* The accounts of the tests and nothing else: users register, are read,
\* updated and deleted.
InitUser == Store(1..2, {}, {}, {}, {})

NextUser ==
    \/ resp = NoResponse /\ \E request \in UserRequests(Actors) : UserRequest(request)
    \/ Deliver

SpecUser == InitUser /\ [][NextUser]_vars

\* A catalog with one category and no product yet.
InitCatalog == Store(1..2, {TestCategory}, {}, {}, {})

NextCatalog ==
    \/ resp = NoResponse /\ \E request \in ProductRequests(Actors) : ProductRequest(request)
    \/ Deliver

SpecCatalog == InitCatalog /\ [][NextCatalog]_vars

\* Every account exists and no order has been placed.
InitOrder == Store(1..MaxUsers, {}, {}, {}, {})

NextOrder ==
    \/ resp = NoResponse /\ \E request \in OrderRequests(Actors) : OrderRequest(request)
    \/ Deliver

SpecOrder == InitOrder /\ [][NextOrder]_vars

\* Every account exists and no review has been written.
InitReview == Store(1..MaxUsers, {}, {}, {}, {})

NextReview ==
    \/ resp = NoResponse /\ \E request \in ReviewRequests(Actors), authenticate_header \in BOOLEAN :
           ReviewRequest(request, authenticate_header)
    \/ Deliver

SpecReview == InitReview /\ [][NextReview]_vars

\* A store holding one row of each kind, as the tests' setUp leaves it, and
\* a client that sends no credential.
InitAnon ==
    Store(1..2, {TestCategory},
          {[id |-> 1, price |-> 1, stock_quantity |-> 1, category |-> {1}]},
          {[id |-> 1, user |-> 2, quantity |-> 1]},
          {[id |-> 1, user |-> 2, rating |-> 1]})

NextAnon ==
    \/ resp = NoResponse /\ \E request \in UserRequests({AnonymousUser}) : UserRequest(request)
    \/ resp = NoResponse /\ \E request \in CategoryRequests({AnonymousUser}) : CategoryRequest(request)
    \/ resp = NoResponse /\ \E request \in ProductRequests({AnonymousUser}) : ProductRequest(request)
    \/ resp = NoResponse /\ \E request \in OrderRequests({AnonymousUser}) : OrderRequest(request)
    \/ resp = NoResponse /\ \E request \in ReviewRequests({AnonymousUser}), authenticate_header \in BOOLEAN :
           ReviewRequest(request, authenticate_header)
    \/ Deliver

SpecAnon == InitAnon /\ [][NextAnon]_vars

(***************************************************************************)
(* Properties.  Each is about the response resp of the last request:       *)
(* resp.user is the actor, resp.target the row the primary key named when  *)
(* the request arrived, resp.results the rows the response carries.        *)
(***************************************************************************)
NonStaff(actor) == actor.is_authenticated /\ ~actor.is_staff

Staff(actor) == actor.is_authenticated /\ actor.is_staff

Refused == {401, 403}

\* C1: a non-staff authenticated actor who lists orders or retrieves an order
\* by id never receives an order owned by another user: the list holds only
\* the actor's orders, and the retrieve of another user's order is answered
\* 403 or 404.
C1_NonStaffSeesOnlyOwnOrders ==
    (resp.resource = "Order" /\ NonStaff(resp.user)) =>
        /\ resp.action \in {"list", "retrieve"} =>
               \A o \in resp.results : o.user = resp.user.id
        /\ (resp.action = "retrieve" /\ \E o \in resp.target : o.user # resp.user.id) =>
               resp.status \in {403, 404}

\* A non-staff actor lists orders while the store holds another user's order,
\* and receives an order of its own.
C1_Witness ==
    /\ resp.resource = "Order" /\ NonStaff(resp.user)
    /\ resp.action = "list"
    /\ resp.results # {}
    /\ \E o \in orders : o.user # resp.user.id

\* C2: a staff actor retrieving any existing order is answered 200, whoever
\* owns the order.
C2_StaffRetrievesAnyOrder ==
    (resp.resource = "Order" /\ Staff(resp.user)
        /\ resp.action = "retrieve" /\ resp.target # {}) =>
        resp.status = 200

\* C3: a non-staff actor's PUT or DELETE of an order the actor owns passes
\* authorization.
C3_OwnerMayUpdateAndDelete ==
    (resp.resource = "Order" /\ NonStaff(resp.user)
        /\ resp.method \in {"PUT", "DELETE"}
        /\ \E o \in resp.target : o.user = resp.user.id) =>
        resp.status \notin Refused \cup {404}

\* C4: a staff actor's PUT, PATCH or DELETE of any existing order passes the
\* collection-level and the object-level permission check.
C4_StaffMayUpdateAndDeleteByEveryVerb ==
    (resp.resource = "Order" /\ Staff(resp.user)
        /\ resp.method \in {"PUT", "PATCH", "DELETE"} /\ resp.target # {}) =>
        resp.status \notin Refused \cup {404}

C6_CreatedReviewIsAuthoredByActor ==
    (resp.resource = "Review" /\ resp.action = "create" /\ resp.status = 201) =>
        /\ resp.user.is_authenticated
        /\ resp.results # {}
        /\ \A r \in resp.results : r \in reviews /\ r.user = resp.user.id

\* A review was created from a payload that supplies another user as author.
C6_Witness ==
    /\ resp.resource = "Review" /\ resp.action = "create" /\ resp.status = 201
    /\ \E d \in resp.data : d.user # resp.user.id

\* The requests the policy grants an anonymous actor.
AnonymousMay(resource, action) ==
    \/ resource = "User" /\ action = "create"
    \/ resource \in {"Product", "Category"} /\ action \in {"list", "retrieve"}

\* C7: an anonymous request is authorized exactly when it is a create on User
\* or a list or retrieve on Product or Category; every other request is
\* answered 403 and leaves the store unchanged.
C7_AnonymousPolicy ==
    (resp.resource # "none" /\ ~resp.user.is_authenticated) =>
        IF AnonymousMay(resp.resource, resp.action)
        THEN resp.status \notin Refused
        ELSE resp.status = 403 /\ ~resp.changed

\* C8: a non-staff authenticated actor retrieving an order the actor owns is
\* answered 200 with that order.
C8_OwnerRetrievesOwnOrder ==
    (resp.resource = "Order" /\ NonStaff(resp.user) /\ resp.action = "retrieve"
        /\ \E o \in resp.target : o.user = resp.user.id) =>
        resp.status = 200 /\ resp.results = resp.target

\* A non-staff actor has retrieved an order it owns while the store also
\* holds an order of another user.
C8_Witness ==
    /\ resp.resource = "Order" /\ NonStaff(resp.user) /\ resp.action = "retrieve"
    /\ \E o \in resp.target : o.user = resp.user.id
    /\ \E o \in orders : o.user # resp.user.id

\* C9: the visible users are all users for a staff actor and the actor's own
\* record for a non-staff actor: a staff actor lists every user and retrieves
\* any existing one; a non-staff actor lists exactly its own record, and its
\* retrieve, update or delete of any other id is answered 404 and changes
\* nothing.
C9_VisibleUsers ==
    (resp.resource = "User" /\ resp.user.is_authenticated) =>
        /\ (Staff(resp.user) /\ resp.action = "list") => resp.results = users
        /\ (Staff(resp.user) /\ resp.action = "retrieve" /\ resp.target # {}) =>
               resp.status = 200 /\ resp.results = resp.target
        /\ (NonStaff(resp.user) /\ resp.action = "list") =>
               resp.results = {u \in users : u.id = resp.user.id}
        /\ (NonStaff(resp.user) /\ resp.action \in DetailActions) =>
               /\ \A u \in resp.results : u.id = resp.user.id
               /\ resp.pk # resp.user.id => resp.status = 404 /\ ~resp.changed

\* A non-staff actor asked for the record of another existing user.
C9_Witness ==
    /\ resp.resource = "User" /\ NonStaff(resp.user)
    /\ resp.action \in DetailActions
    /\ resp.target # {}
    /\ resp.pk # resp.user.id

\* C10: listing products with in_stock=true and no other filter returns
\* exactly the products whose stock_quantity is greater than 0.
C10_InStockIsPositiveStock ==
    (resp.resource = "Product" /\ resp.action = "list"
        /\ resp.query = [NoQuery EXCEPT !.in_stock = {TRUE}]) =>
        /\ resp.status = 200
        /\ resp.results = {p \in products : p.stock_quantity > 0}

====
